---- MODULE Spec2Model ----
(***************************************************************************)
(* Model of thunder/rdds/imgblocks/strategy.py: BlockingStrategy,          *)
(* SimpleBlockingStrategy and the _BlockMemoryAsSequence search helpers.   *)
(*                                                                         *)
(* Conventions                                                             *)
(*  - Python None is the empty tuple <<>>; a present value x is <<x>>.     *)
(*  - Python tuples/lists are TLA+ sequences (1-based); Python indices     *)
(*    (0-based) are kept 0-based in every value the code exposes.          *)
(*  - Python floats produced by d / float(s) are kept as exact fractions   *)
(*    [num, den]; comparisons are done by cross multiplication.            *)
(*  - A numpy array is [shape |-> <<n1,..>>, cells |-> [coords -> value]]. *)
(***************************************************************************)
EXTENDS Integers, Sequences, FiniteSets, TLC

VARIABLES
    self_splitsPerDim,  \* SimpleBlockingStrategy._splitsPerDim
    self_dims,          \* BlockingStrategy._dims      (None or <<dims>>)
    self_nimages,       \* BlockingStrategy._nimages   (None or <<n>>)
    self_dtype,         \* BlockingStrategy._dtype     (None or <<dtype>>)
    self_slices,        \* SimpleBlockingStrategy._slices (None or <<grid>>)
    images,             \* the Images object the caller works with
    emitted,            \* time index -> list returned by blockingFunction
    args,               \* arguments of the most recent call
    ret                 \* outcome of the most recent call

vars == <<self_splitsPerDim, self_dims, self_nimages, self_dtype, self_slices,
          images, emitted, args, ret>>

objVars == <<self_splitsPerDim, self_dims, self_nimages, self_dtype, self_slices>>

-----------------------------------------------------------------------------
(* Bounds of the model *)

MaxNDim == 2          \* largest dimensionality of an Images object
MaxDim == 3           \* largest extent of one image axis
MaxSplits == 2        \* largest split count handed to the constructor
MaxImages == 2        \* largest number of time points
SliceDimMax == 10     \* largest axis extent handed to __generateSlices alone
SearchNDim == 3       \* largest dimensionality handed to the size search
SearchDim == 3        \* largest axis extent handed to the size search
MaxBlockSize == 60    \* largest requested block size in bytes

-----------------------------------------------------------------------------
(* Generic helpers *)

None == <<>>

Some(x) == <<x>>

Min(a, b) == IF a <= b THEN a ELSE b

Max(a, b) == IF a >= b THEN a ELSE b

RECURSIVE Prod(_)
Prod(s) == IF s = <<>> THEN 1 ELSE Head(s) * Prod(Tail(s))

RECURSIVE Sum(_)
Sum(s) == IF s = <<>> THEN 0 ELSE Head(s) + Sum(Tail(s))

\* all sequences over S with length in lo..hi
SeqsOf(S, lo, hi) == UNION {[1..n -> S] : n \in lo..hi}

\* fractions standing for Python floats
Frac(n, d) == [num |-> n, den |-> d]

FracLess(a, b) == a.num * b.den < b.num * a.den

FracGeq(a, b) == ~FracLess(a, b)

AbsInt(n) == IF n < 0 THEN -n ELSE n

\* |a - b| for fractions a, b
FracDist(a, b) == Frac(AbsInt(a.num * b.den - b.num * a.den), a.den * b.den)

-----------------------------------------------------------------------------
(* _BlockMemoryAsSequence / _BlockMemoryAsReversedSequence *)

\* variant of the loop that lets an axis take dims[didx] extra splits
RECURSIVE indtosubLoopOffByOne(_, _, _, _)
indtosubLoopOffByOne(dims, sub, didx, idx) ==
    IF didx < 1 THEN sub
    ELSE LET delta == Min(dims[didx], idx)
             sub1 == IF delta > 0 THEN [sub EXCEPT ![didx] = @ + delta] ELSE sub
             idx1 == IF delta > 0 THEN idx - delta ELSE idx
         IN IF idx1 <= 0 THEN sub1
            ELSE indtosubLoopOffByOne(dims, sub1, didx - 1, idx1)

\* body of the for loop of indtosub: didx runs from the last dimension down
RECURSIVE indtosubLoop(_, _, _, _)
indtosubLoop(dims, sub, didx, idx) ==
    IF didx < 1 THEN sub
    ELSE LET delta == Min(dims[didx] - 1, idx)
             sub1 == IF delta > 0 THEN [sub EXCEPT ![didx] = @ + delta] ELSE sub
             idx1 == IF delta > 0 THEN idx - delta ELSE idx
         IN IF idx1 <= 0 THEN sub1
            ELSE indtosubLoop(dims, sub1, didx - 1, idx1)

indtosub(dims, idx) ==
    indtosubLoop(dims, [i \in 1..Len(dims) |-> 1], Len(dims), idx)

blockMemoryForSplits(dims, sub) ==
    LET n == Min(Len(dims), Len(sub))
    IN Frac(Prod(SubSeq(dims, 1, n)), Prod(SubSeq(sub, 1, n)))

memseqLen(dims) == Sum([i \in 1..Len(dims) |-> dims[i] - 1]) + 1

getitem(dims, item) == blockMemoryForSplits(dims, indtosub(dims, item))

\* _reverseIdx raises IndexError outside [0, len)
reverseIdxRaises(dims, idx) == idx < 0 \/ idx >= memseqLen(dims)

\* variant that does not reverse
reverseIdxIdentity(dims, idx) == idx

reverseIdx(dims, idx) == memseqLen(dims) - (idx + 1)

reversedIndtosub(dims, idx) == indtosub(dims, reverseIdx(dims, idx))

reversedGetitem(dims, item) ==
    blockMemoryForSplits(dims, reversedIndtosub(dims, item))

-----------------------------------------------------------------------------
(* SimpleBlockingStrategy.generateFromBlockSize *)

\* numpy dtype(datatype).itemsize for the element types of the model
itemsize(datatype) ==
    CASE datatype = "uint8" -> 1
      [] datatype = "int16" -> 2
      [] datatype = "float64" -> 8

\* variant: bisect_right, which steps past entries equal to x
RECURSIVE bisect_right(_, _, _, _)
bisect_right(dims, x, lo, hi) ==
    IF lo < hi
    THEN LET mid == (lo + hi) \div 2
         IN IF FracLess(x, reversedGetitem(dims, mid))
            THEN bisect_right(dims, x, lo, mid)
            ELSE bisect_right(dims, x, mid + 1, hi)
    ELSE lo

\* bisect.bisect_left(memseq, x) over the reversed sequence
RECURSIVE bisect_left(_, _, _, _)
bisect_left(dims, x, lo, hi) ==
    IF lo < hi
    THEN LET mid == (lo + hi) \div 2
         IN IF FracLess(reversedGetitem(dims, mid), x)
            THEN bisect_left(dims, x, mid + 1, hi)
            ELSE bisect_left(dims, x, lo, mid)
    ELSE lo

\* index into the reversed sequence that generateFromBlockSize settles on
searchIndex(blockSize, dims, nimages, datatype) ==
    LET minseriessize == nimages * itemsize(datatype)
        tmpidx == bisect_left(dims, Frac(blockSize, minseriessize),
                              0, memseqLen(dims))
    IN IF tmpidx = memseqLen(dims) THEN tmpidx - 1 ELSE tmpidx

generateFromBlockSize(blockSize, dims, nimages, datatype) ==
    reversedIndtosub(dims, searchIndex(blockSize, dims, nimages, datatype))

-----------------------------------------------------------------------------
(* SimpleBlockingStrategy.__generateSlices *)

slice(st, en, step) == [start |-> st, stop |-> en, step |-> step]

\* slice(None)
sliceNone == [full |-> TRUE]

\* inner for loop over blockidx for one (nsplits, dimsize) pair
RECURSIVE dimSlicesLoop(_, _, _, _, _, _)
dimSlicesLoop(nsplits, dimsize, blocksize, blockidx, st, blockrem) ==
    IF blockidx >= nsplits THEN <<>>
    ELSE LET en == IF blockrem # 0 THEN st + blocksize + 1 ELSE st + blocksize
             rem1 == IF blockrem # 0 THEN blockrem - 1 ELSE blockrem
         IN <<slice(st, Min(en, dimsize), 1)>>
            \o dimSlicesLoop(nsplits, dimsize, blocksize, blockidx + 1, en, rem1)

\* variant that drops the remainder instead of spreading it
dimSlicesNoRemainder(nsplits, dimsize) ==
    dimSlicesLoop(nsplits, dimsize, dimsize \div nsplits, 0, 0, 0)

dimSlices(nsplits, dimsize) ==
    dimSlicesLoop(nsplits, dimsize, dimsize \div nsplits, 0, 0, dimsize % nsplits)

generateSlices(splitsPerDim, dims) ==
    [i \in 1..Min(Len(splitsPerDim), Len(dims)) |-> dimSlices(splitsPerDim[i], dims[i])]

-----------------------------------------------------------------------------
(* numpy arrays *)

\* index tuples of an array of the given shape (0-based per axis)
RECURSIVE Coords(_)
Coords(shape) ==
    IF shape = <<>> THEN {<<>>}
    ELSE {<<i>> \o r : i \in 0..(Head(shape) - 1), r \in Coords(Tail(shape))}

\* numpy.zeros(shape)
zeros(shape) == [shape |-> shape, cells |-> [c \in Coords(shape) |-> 0]]

\* first index selected by a slice on an axis of extent n (slice.indices clipping)
sliceLo(s, n) == IF "full" \in DOMAIN s THEN 0 ELSE Min(s.start, n)

sliceHi(s, n) == IF "full" \in DOMAIN s THEN n ELSE Min(s.stop, n)

sliceLen(s, n) == Max(0, sliceHi(s, n) - sliceLo(s, n))

\* imgary[blockslices] raises IndexError when there are more slices than axes
indexRaises(imgary, blockslices) == Len(blockslices) > Len(imgary.shape)

\* imgary[blockslices]: basic slicing, missing trailing axes are taken whole
index(imgary, blockslices) ==
    LET nd == Len(imgary.shape)
        lo == [i \in 1..nd |-> IF i <= Len(blockslices)
                                THEN sliceLo(blockslices[i], imgary.shape[i]) ELSE 0]
        shp == [i \in 1..nd |-> IF i <= Len(blockslices)
                                 THEN sliceLen(blockslices[i], imgary.shape[i])
                                 ELSE imgary.shape[i]]
    IN [shape |-> shp,
        cells |-> [c \in Coords(shp) |-> imgary.cells[[i \in 1..nd |-> c[i] + lo[i]]]]]

\* numpy.expand_dims(a, axis=0)
expand_dims(a) ==
    LET shp == <<1>> \o a.shape
    IN [shape |-> shp, cells |-> [c \in Coords(shp) |-> a.cells[Tail(c)]]]

\* itertools.product(*slices): last axis varies fastest
RECURSIVE product(_)
product(lists) ==
    IF lists = <<>> THEN << <<>> >>
    ELSE LET rest == product(Tail(lists))
             hd == Head(lists)
             n == Len(rest)
         IN [k \in 1..(Len(hd) * n) |->
                <<hd[((k - 1) \div n) + 1]>> \o rest[((k - 1) % n) + 1]]

-----------------------------------------------------------------------------
(* SimpleBlockingStrategy: construction, binding, extraction, combination *)

\* __normalizeSplits raises ValueError on a non-positive entry
normalizeSplitsRaises(splitsPerDim) ==
    \E i \in 1..Len(splitsPerDim) : splitsPerDim[i] <= 0

\* __validateSplitsForImage raises ValueError on a dimensionality mismatch
validateSplitsForImageRaises(splitsPerDim, dims) ==
    ~(Len(splitsPerDim) = Len(dims))

BlockGroupingKey(origshape, origslices) ==
    [origshape |-> origshape, origslices |-> origslices]

extractBlockFromImage(imgary, blockslices, timepoint, numtimepoints) ==
    LET val == expand_dims(index(imgary, blockslices))
        origshape == <<numtimepoints>> \o imgary.shape
        origslices == <<slice(timepoint, timepoint + 1, 1)>> \o blockslices
    IN [key |-> BlockGroupingKey(origshape, origslices), block |-> val]

\* blockingFunction body for a bound slice grid
blockingFunction(slices, totnumimages, tpidx, imgary) ==
    LET sliceproduct == product(slices)
    IN [k \in 1..Len(sliceproduct) |->
           extractBlockFromImage(imgary, sliceproduct[k], tpidx, totnumimages)]

\* ary[targslices] = block raises ValueError when block cannot be broadcast
assignRaises(ary, block) ==
    \/ Len(block.shape) # Len(ary.shape)
    \/ \E i \in 2..Len(ary.shape) : block.shape[i] \notin {1, ary.shape[i]}

\* ary[ [key.origslices[0]] + [slice(None)] * (block.ndim - 1) ] = block
assign(ary, key, block) ==
    LET ts == key.origslices[1]
        lo == sliceLo(ts, ary.shape[1])
        hi == sliceHi(ts, ary.shape[1])
        src(c) == [i \in 1..Len(c) |->
                     IF i = 1 THEN (IF block.shape[1] = 1 THEN 0 ELSE c[1] - lo)
                     ELSE IF block.shape[i] = 1 THEN 0 ELSE c[i]]
    IN [ary EXCEPT !.cells = [c \in DOMAIN ary.cells |->
            IF lo <= c[1] /\ c[1] < hi THEN block.cells[src(c)] ELSE ary.cells[c]]]

\* variant that stores each block at its arrival position, ignoring the key
RECURSIVE combineLoopByArrival(_, _)
combineLoopByArrival(ary, partitionedSequence) ==
    IF partitionedSequence = <<>> THEN ary
    ELSE LET p == Head(partitionedSequence)
             pos == Max(0, ary.shape[1] - Len(partitionedSequence))
             key == [p.key EXCEPT !.origslices[1] = slice(pos, pos + 1, 1)]
         IN combineLoopByArrival(assign(ary, key, p.block),
                                 Tail(partitionedSequence))

\* the for loop of combiningFunction after the accumulator is set up
RECURSIVE combineLoop(_, _)
combineLoop(ary, partitionedSequence) ==
    IF partitionedSequence = <<>> THEN ary
    ELSE LET p == Head(partitionedSequence)
         IN combineLoop(assign(ary, p.key, p.block), Tail(partitionedSequence))

\* an empty sequence leaves firstkey None (AttributeError on firstkey.origslices)
combiningFunctionStatus(partitionedSequence) ==
    IF partitionedSequence = <<>> THEN "AttributeError"
    ELSE LET first == partitionedSequence[1]
             newshape == <<first.key.origshape[1]>> \o Tail(first.block.shape)
         IN IF \E k \in 1..Len(partitionedSequence) :
                   assignRaises(zeros(newshape), partitionedSequence[k].block)
            THEN "ValueError" ELSE "ok"

combiningFunction(partitionedSequence) ==
    LET firstkey == partitionedSequence[1].key
        first == partitionedSequence[1].block
        newshape == <<firstkey.origshape[1]>> \o Tail(first.shape)
        ary == combineLoop(zeros(newshape), partitionedSequence)
        neworigslices == <<sliceNone>> \o Tail(firstkey.origslices)
    IN [key |-> BlockGroupingKey(firstkey.origshape, neworigslices), block |-> ary]

-----------------------------------------------------------------------------
(* Inputs supplied by the caller *)

DTypes == {"uint8", "float64"}

\* row-major position of index tuple c in an array of shape dims
Lin(c, dims) ==
    Sum([i \in 1..Len(dims) |-> c[i] * Prod(SubSeq(dims, i + 1, Len(dims)))])

\* an Images object: every cell of every time point holds a distinct non-zero value
MakeImages(dims, nimages, dtype) ==
    [dims |-> dims, nimages |-> nimages, dtype |-> dtype,
     data |-> [t \in 0..(nimages - 1) |->
                  [shape |-> dims,
                   cells |-> [c \in Coords(dims) |-> 1 + t * Prod(dims) + Lin(c, dims)]]]]

ImagesSet ==
    {MakeImages(d, n, ty) : d \in SeqsOf(1..MaxDim, 1, MaxNDim),
                            n \in 1..MaxImages, ty \in DTypes}

\* duplicate-free sequences over S, the empty one included
Orders(S) ==
    {o \in SeqsOf(S, 0, Cardinality(S)) :
        \A i, j \in 1..Len(o) : i # j => o[i] # o[j]}

Ok(v) == [status |-> "ok", value |-> v]

Raised(e) == [status |-> e]

-----------------------------------------------------------------------------
(* The strategy object driven by its caller *)

\* variant whose constructor starts with an empty slice grid instead of None
newStrategyEmptyGrid(splitsPerDim) ==
    [splitsPerDim |-> splitsPerDim, dims |-> None, nimages |-> None,
     dtype |-> None, slices |-> Some(<<>>)]

\* fields set by SimpleBlockingStrategy.__init__ (and BlockingStrategy.__init__)
newStrategy(splitsPerDim) ==
    [splitsPerDim |-> splitsPerDim, dims |-> None, nimages |-> None,
     dtype |-> None, slices |-> None]

\* state right after SimpleBlockingStrategy(splitsPerDim) returned
Constructed(splitsPerDim) ==
    LET obj == newStrategy(splitsPerDim)
    IN /\ self_splitsPerDim = obj.splitsPerDim
       /\ self_dims = obj.dims
       /\ self_nimages = obj.nimages
       /\ self_dtype = obj.dtype
       /\ self_slices = obj.slices

Init ==
    /\ \E s \in SeqsOf(1..MaxSplits, 1, MaxNDim) : Constructed(s)
    /\ images \in ImagesSet
    /\ emitted = <<>>
    /\ args = [op |-> "__init__", splitsPerDim |-> self_splitsPerDim]
    /\ ret = Ok(None)

\* SimpleBlockingStrategy(splitsPerDim): the caller replaces its strategy
Construct(splitsPerDim) ==
    /\ args' = [op |-> "__init__", splitsPerDim |-> splitsPerDim]
    /\ IF normalizeSplitsRaises(splitsPerDim)
       THEN /\ ret' = Raised("ValueError")
            /\ UNCHANGED objVars
       ELSE LET obj == newStrategy(splitsPerDim)
            IN /\ self_splitsPerDim' = obj.splitsPerDim
               /\ self_dims' = obj.dims
               /\ self_nimages' = obj.nimages
               /\ self_dtype' = obj.dtype
               /\ self_slices' = obj.slices
               /\ ret' = Ok(None)
    /\ UNCHANGED <<images, emitted>>

\* SimpleBlockingStrategy.setImages(imgs)
SetImages(imgs) ==
    /\ args' = [op |-> "setImages", images |-> imgs]
    /\ images' = imgs
    /\ emitted' = <<>>
    /\ self_dims' = Some(imgs.dims)
    /\ self_nimages' = Some(imgs.nimages)
    /\ self_dtype' = Some(imgs.dtype)
    /\ IF validateSplitsForImageRaises(self_splitsPerDim, imgs.dims)
       THEN /\ ret' = Raised("ValueError")
            /\ UNCHANGED self_slices
       ELSE /\ self_slices' = Some(generateSlices(self_splitsPerDim, imgs.dims))
            /\ ret' = Ok(None)
    /\ UNCHANGED self_splitsPerDim

\* blockingFunction((tpidx, imgary)) for one time point of the caller's Images
BlockingFunction(tpidx) ==
    LET imgary == images.data[tpidx]
    IN /\ args' = [op |-> "blockingFunction", tpidx |-> tpidx]
       /\ IF self_slices = None
          THEN /\ ret' = Raised("TypeError")
               /\ UNCHANGED emitted
          ELSE LET slices == self_slices[1]
               IN IF \E k \in 1..Len(product(slices)) :
                         indexRaises(imgary, product(slices)[k])
                  THEN /\ ret' = Raised("IndexError")
                       /\ UNCHANGED emitted
                  ELSE LET totnumimages == IF self_nimages = None THEN None
                                           ELSE self_nimages[1]
                           ret_vals == blockingFunction(slices, totnumimages,
                                                        tpidx, imgary)
                       IN /\ ret' = Ok(ret_vals)
                          /\ emitted' = [t \in DOMAIN emitted \cup {tpidx} |->
                                            IF t = tpidx THEN ret_vals ELSE emitted[t]]
       /\ UNCHANGED <<objVars, images>>

\* number of spatial blocks in the lists handed out so far
EmittedBlocks ==
    IF DOMAIN emitted = {} THEN 1
    ELSE Len(emitted[CHOOSE t \in DOMAIN emitted : TRUE])

\* the (key, block) pairs of spatial block b at the time points of order
Gather(b, order) == [k \in 1..Len(order) |-> emitted[order[k]][b]]

\* combiningFunction((spatialIdx, sequence)) for spatial block b
CombiningFunction(b, order) ==
    LET partitionedSequence == Gather(b, order)
        status == combiningFunctionStatus(partitionedSequence)
    IN /\ args' = [op |-> "combiningFunction", b |-> b, order |-> order]
       /\ ret' = IF status = "ok" THEN Ok(combiningFunction(partitionedSequence))
                 ELSE Raised(status)
       /\ UNCHANGED <<objVars, images, emitted>>

\* property dims
GetDims ==
    /\ args' = [op |-> "dims"]
    /\ ret' = Ok(self_dims)
    /\ UNCHANGED <<objVars, images, emitted>>

\* property nimages
GetNimages ==
    /\ args' = [op |-> "nimages"]
    /\ ret' = Ok(self_nimages)
    /\ UNCHANGED <<objVars, images, emitted>>

\* property dtype: the getter reads self.dtype, i.e. calls itself until the
\* interpreter's recursion limit raises RuntimeError
dtypeProperty(stored) == Raised("RuntimeError")

GetDtype ==
    /\ args' = [op |-> "dtype"]
    /\ ret' = dtypeProperty(self_dtype)
    /\ UNCHANGED <<objVars, images, emitted>>

\* constructor arguments: every positive SplitSpec and two rejected ones
SplitsInputs == SeqsOf(1..MaxSplits, 1, MaxNDim) \cup {<<0>>, <<1, -1>>}

\* binding and re-binding one strategy, and reading its properties
Next ==
    \/ \E s \in SplitsInputs : Construct(s)
    \/ \E imgs \in ImagesSet : SetImages(imgs)
    \/ GetDims
    \/ GetNimages
    \/ GetDtype

Spec == Init /\ [][Next]_vars

-----------------------------------------------------------------------------
(* Extraction and combination over one Images object *)

InitBlocks ==
    /\ \E s \in SeqsOf(1..MaxSplits, 1, MaxNDim) : Constructed(s)
    /\ images \in {im \in ImagesSet : im.dtype = "uint8"}
    /\ emitted = <<>>
    /\ args = [op |-> "__init__", splitsPerDim |-> self_splitsPerDim]
    /\ ret = Ok(None)

\* the caller binds its Images, maps blockingFunction over the time points,
\* groups the pairs by spatial block and reduces each group with
\* combiningFunction; it may also build a fresh strategy from the same splits
NextBlocks ==
    \/ SetImages(images)
    \/ Construct(self_splitsPerDim)
    \/ \E tpidx \in 0..(images.nimages - 1) : BlockingFunction(tpidx)
    \/ \E b \in 1..EmittedBlocks, order \in Orders(DOMAIN emitted) :
          CombiningFunction(b, order)

SpecBlocks == InitBlocks /\ [][NextBlocks]_vars

-----------------------------------------------------------------------------
(* The static helpers and the size search, called on their own *)

\* the array shape used as the running example in _BlockMemoryAsSequence
ScenarioDims == <<5, 10, 3>>

SearchDimsSet == SeqsOf(1..SearchDim, 1, SearchNDim) \cup {ScenarioDims}

SliceCalls ==
    {[op |-> "__generateSlices", splitsPerDim |-> s, dims |-> d] :
        s \in SeqsOf(1..SliceDimMax, 1, 1), d \in SeqsOf(1..SliceDimMax, 1, 1)}
    \cup
    UNION {{[op |-> "__generateSlices", splitsPerDim |-> s, dims |-> d] :
               s \in SeqsOf(1..MaxSplits, n, n), d \in SeqsOf(1..MaxDim, n, n)} :
           n \in 2..MaxNDim}

SequenceCalls ==
    UNION {{[op |-> o, dims |-> d, idx |-> i] :
               o \in {"indtosub", "__getitem__"}, i \in 0..(memseqLen(d) - 1)}
           \cup
           {[op |-> o, dims |-> d, idx |-> i] :
               o \in {"reversed.indtosub", "reversed.__getitem__"},
               i \in (-1)..memseqLen(d)} : d \in SearchDimsSet}

FactoryCalls ==
    {[op |-> "generateFromBlockSize", blockSize |-> b, dims |-> d,
      nimages |-> n, datatype |-> ty] :
        b \in 1..MaxBlockSize, d \in SearchDimsSet, n \in 1..MaxImages, ty \in DTypes}

Pending == [status |-> "pending"]

InitSearch ==
    /\ Constructed(<<1>>)
    /\ images = MakeImages(<<1>>, 1, "uint8")
    /\ emitted = <<>>
    /\ args \in SliceCalls \cup SequenceCalls \cup FactoryCalls
    /\ ret = Pending

GenerateSlicesCall ==
    /\ args.op = "__generateSlices" /\ ret = Pending
    /\ ret' = Ok(generateSlices(args.splitsPerDim, args.dims))
    /\ UNCHANGED <<objVars, images, emitted, args>>

IndtosubCall ==
    /\ args.op = "indtosub" /\ ret = Pending
    /\ ret' = Ok(indtosub(args.dims, args.idx))
    /\ UNCHANGED <<objVars, images, emitted, args>>

GetitemCall ==
    /\ args.op = "__getitem__" /\ ret = Pending
    /\ ret' = Ok(getitem(args.dims, args.idx))
    /\ UNCHANGED <<objVars, images, emitted, args>>

ReversedIndtosubCall ==
    /\ args.op = "reversed.indtosub" /\ ret = Pending
    /\ ret' = IF reverseIdxRaises(args.dims, args.idx) THEN Raised("IndexError")
              ELSE Ok(reversedIndtosub(args.dims, args.idx))
    /\ UNCHANGED <<objVars, images, emitted, args>>

ReversedGetitemCall ==
    /\ args.op = "reversed.__getitem__" /\ ret = Pending
    /\ ret' = IF reverseIdxRaises(args.dims, args.idx) THEN Raised("IndexError")
              ELSE Ok(reversedGetitem(args.dims, args.idx))
    /\ UNCHANGED <<objVars, images, emitted, args>>

\* the classmethod returns cls(splitsPerDim): a new, unbound strategy
GenerateFromBlockSizeCall ==
    /\ args.op = "generateFromBlockSize" /\ ret = Pending
    /\ LET obj == newStrategy(generateFromBlockSize(args.blockSize, args.dims,
                                                    args.nimages, args.datatype))
       IN /\ self_splitsPerDim' = obj.splitsPerDim
          /\ self_dims' = obj.dims
          /\ self_nimages' = obj.nimages
          /\ self_dtype' = obj.dtype
          /\ self_slices' = obj.slices
          /\ ret' = Ok(obj.splitsPerDim)
    /\ UNCHANGED <<images, emitted, args>>

NextSearch ==
    \/ GenerateSlicesCall
    \/ IndtosubCall
    \/ GetitemCall
    \/ ReversedIndtosubCall
    \/ ReversedGetitemCall
    \/ GenerateFromBlockSizeCall

SpecSearch == InitSearch /\ [][NextSearch]_vars

-----------------------------------------------------------------------------
(* Properties of the slice generator *)

SliceLen(sl) == sl.stop - sl.start

\* the remainder-balanced layout of one axis
BalancedAxis(sl, nsplits, dimsize) ==
    /\ Len(sl) = nsplits
    /\ sl[1].start = 0
    /\ sl[Len(sl)].stop = dimsize
    /\ \A k \in 1..(Len(sl) - 1) : sl[k].stop = sl[k + 1].start
    /\ \A k \in 1..Len(sl) :
          /\ sl[k].step = 1
          /\ sl[k].start < sl[k].stop
          /\ SliceLen(sl[k]) = (dimsize \div nsplits)
                                + (IF k <= dimsize % nsplits THEN 1 ELSE 0)

\* C1: for 1 <= splits <= dimSize the slices returned for an axis are exactly
\* `splits` contiguous half-open slices in increasing order from 0 to dimSize,
\* the first (dimSize mod splits) of length dimSize div splits + 1 and the
\* rest of length dimSize div splits
C1_BalancedSlices ==
    (args.op = "__generateSlices" /\ ret.status = "ok") =>
        /\ Len(ret.value) = Len(args.dims)
        /\ \A i \in 1..Len(args.dims) :
              (1 <= args.splitsPerDim[i] /\ args.splitsPerDim[i] <= args.dims[i])
                  => BalancedAxis(ret.value[i], args.splitsPerDim[i], args.dims[i])

C1_Witness ==
    /\ args.op = "__generateSlices" /\ ret.status = "ok"
    /\ args.dims = <<10>> /\ args.splitsPerDim = <<3>>
    /\ [k \in 1..3 |-> SliceLen(ret.value[1][k])] = <<4, 3, 3>>

-----------------------------------------------------------------------------
(* Properties of the block-size sequence *)

Ones(dims) == [i \in 1..Len(dims) |-> 1]

\* one step of the traversal: one more split on the last axis not yet at dims[i]
TraversalStep(dims, sub) ==
    LET open == {i \in 1..Len(dims) : sub[i] < dims[i]}
        last == CHOOSE i \in open : \A j \in open : j <= i
    IN [sub EXCEPT ![last] = @ + 1]

RECURSIVE Traversal(_, _)
Traversal(dims, n) ==
    IF n = 0 THEN Ones(dims) ELSE TraversalStep(dims, Traversal(dims, n - 1))

\* C9: indtosub(idx) is the SplitSpec reached after idx traversal steps from
\* (1,...,1); index 0 gives (1,...,1), the last index gives dims, every result
\* lies within 1..dims[i] with sum(splits[i]-1) = idx, and distinct indices
\* give distinct SplitSpecs
C9_IndtosubIsTraversal ==
    (args.op = "indtosub" /\ ret.status = "ok") =>
        LET dims == args.dims
            sub == ret.value
        IN /\ sub = Traversal(dims, args.idx)
           /\ Len(sub) = Len(dims)
           /\ \A i \in 1..Len(dims) : 1 <= sub[i] /\ sub[i] <= dims[i]
           /\ Sum([i \in 1..Len(dims) |-> sub[i] - 1]) = args.idx
           /\ (args.idx = 0 => sub = Ones(dims))
           /\ (args.idx = memseqLen(dims) - 1 => sub = dims)
           /\ \A j \in 0..(memseqLen(dims) - 1) :
                 j # args.idx => indtosub(dims, j) # sub

C9_Witness ==
    /\ args.op = "indtosub" /\ ret.status = "ok"
    /\ args.dims = <<3, 1, 2>> /\ args.idx = 2
    /\ ret.value = <<2, 1, 2>>

\* C8: the forward sequence is non-increasing and the reversed sequence is
\* non-decreasing over the whole index range
C8_Monotone ==
    /\ (args.op = "__getitem__" /\ ret.status = "ok") =>
          \A j \in (args.idx + 1)..(memseqLen(args.dims) - 1) :
              FracGeq(ret.value, getitem(args.dims, j))
    /\ (args.op = "reversed.__getitem__" /\ ret.status = "ok") =>
          \A j \in (args.idx + 1)..(memseqLen(args.dims) - 1) :
              FracGeq(reversedGetitem(args.dims, j), ret.value)

C8_Witness ==
    /\ args.op = "reversed.__getitem__" /\ ret.status = "ok"
    /\ args.dims = ScenarioDims /\ args.idx = 13
    /\ ret.value = Frac(150, 3)
    /\ FracLess(ret.value, reversedGetitem(args.dims, 14))

-----------------------------------------------------------------------------
(* Properties of the size-driven factory *)

\* the requested average cell count targetBytes / (timeCount * elementByteSize)
Target == Frac(args.blockSize, args.nimages * itemsize(args.datatype))

\* average block cell count of the SplitSpec at forward index j of the path
PathValue(dims, j) == Frac(Prod(dims), Prod(Traversal(dims, j)))

\* forward indices of the path whose average block is not below the target
NotBelowTarget ==
    {j \in 0..(memseqLen(args.dims) - 1) : FracGeq(PathValue(args.dims, j), Target)}

FactoryDone == args.op = "generateFromBlockSize" /\ ret.status = "ok"

\* C3: the factory returns the finest SplitSpec of the path whose average
\* block cell count is >= target (the left-most such index of the ascending
\* reversed sequence), and (1,...,1) when the target exceeds every value;
\* dims (5,10,3) with a target of one z-plane (50 cells) gives (1,1,3)
C3_LeftmostNotBelowTarget ==
    FactoryDone =>
        /\ self_splitsPerDim = ret.value
        /\ IF NotBelowTarget = {}
           THEN ret.value = Ones(args.dims)
           ELSE LET finest == CHOOSE j \in NotBelowTarget :
                                  \A k \in NotBelowTarget : k <= j
                IN ret.value = Traversal(args.dims, finest)
        /\ (args.dims = ScenarioDims
              /\ args.blockSize = 50 * args.nimages * itemsize(args.datatype))
           => ret.value = <<1, 1, 3>>

C3_Witness ==
    /\ FactoryDone
    /\ args.dims = ScenarioDims
    /\ args.blockSize = 50 * args.nimages * itemsize(args.datatype)
    /\ ret.value = <<1, 1, 3>>

\* C4: no SplitSpec on the path has an average block cell count strictly
\* closer to the target than the one the factory chose
C4_ClosestToTarget ==
    FactoryDone =>
        LET chosen == blockMemoryForSplits(args.dims, ret.value)
        IN \A j \in 0..(memseqLen(args.dims) - 1) :
              ~FracLess(FracDist(PathValue(args.dims, j), Target),
                        FracDist(chosen, Target))

-----------------------------------------------------------------------------
(* Properties of extraction and combination *)

Unbound == self_dims = None

CombineDone == args.op = "combiningFunction" /\ ret.status = "ok"

\* the sequence handed to combiningFunction held every time point once
AllTimePoints == Len(args.order) = images.nimages

\* C2: combining, in any arrival order, the pairs that blockingFunction
\* produced for one spatial block at every time index yields a block that
\* equals, at every time index and cell, the sub-region of that time point's
\* source array, and the same key and block for every permutation
C2_RoundTrip ==
    (CombineDone /\ self_slices # None /\ AllTimePoints) =>
        LET n == images.nimages
            blockslices == product(self_slices[1])[args.b]
            shp == [i \in 1..Len(blockslices) |-> SliceLen(blockslices[i])]
            res == ret.value
        IN /\ res.key = BlockGroupingKey(<<n>> \o images.dims,
                                         <<sliceNone>> \o blockslices)
           /\ res.block.shape = <<n>> \o shp
           /\ \A t \in 0..(n - 1) : \A c \in Coords(shp) :
                 res.block.cells[<<t>> \o c] =
                     images.data[t].cells[[i \in 1..Len(c) |->
                                              c[i] + blockslices[i].start]]
           /\ \A q \in Orders(0..(n - 1)) :
                 Len(q) = n => combiningFunction(Gather(args.b, q)) = res

C2_Witness ==
    /\ CombineDone /\ self_slices # None /\ AllTimePoints
    /\ args.order = <<1, 0>>
    /\ images.dims = <<3, 2>> /\ self_splitsPerDim = <<2, 1>> /\ args.b = 1
    /\ ret.value.block.shape = <<2, 2, 2>>

-----------------------------------------------------------------------------
(* Properties of binding *)

BindDone == args.op = "setImages"

\* C5: binding to an array of matching dimensionality with some
\* splitSpec[i] > dims[i] fails with a validation error, so that a bound
\* strategy never holds an empty AxisSlice
C5_OversplitRejected ==
    /\ (BindDone /\ Len(self_splitsPerDim) = Len(args.images.dims)
          /\ \E i \in 1..Len(self_splitsPerDim) :
                self_splitsPerDim[i] > args.images.dims[i])
       => ret.status = "ValueError"
    /\ self_slices # None =>
          \A i \in 1..Len(self_slices[1]) : \A k \in 1..Len(self_slices[1][i]) :
              SliceLen(self_slices[1][i][k]) > 0

\* C6: a bind that raises leaves dims, timeCount, elementType and the
\* SliceGrid exactly as they were before the call
C6_FailedBindChangesNothing ==
    [][(args'.op = "setImages" /\ ret'.status = "ValueError")
          => UNCHANGED <<self_dims, self_nimages, self_dtype, self_slices>>]_vars

\* C10: reading the dtype property returns the element type stored by the
\* most recent setImages call, or None before the first one
C10_DtypeReadable ==
    args.op = "dtype" => ret = Ok(self_dtype)

====
